---- MODULE Spec2Model ----
(***************************************************************************)
(* Inventory and sales tracker backed by a spreadsheet (src/app.py).       *)
(*                                                                         *)
(* A spreadsheet cell is a string, written here as a sequence of one-      *)
(* character strings.  A value held in a DataFrame is a cell record        *)
(*     [t |-> "int" | "float" | "str", n |-> number, s |-> characters]     *)
(* where a float is kept in fixed point, n hundredths, so "2,5" is 250.    *)
(* Strings of the model carry at most two decimal digits.                  *)
(***************************************************************************)
EXTENDS Integers, Sequences, FiniteSets, TLC

(***************************************************************************)
(* Python values                                                           *)
(***************************************************************************)
PyInt(n) == [t |-> "int", n |-> n, s |-> <<>>]
PyFloat(c) == [t |-> "float", n |-> c, s |-> <<>>]
PyStr(s) == [t |-> "str", n |-> 0, s |-> s]

\* float('nan'): what read_csv gives for an empty field
PyNaN == [t |-> "nan", n |-> 0, s |-> <<>>]

DigitChars == <<"0", "1", "2", "3", "4", "5", "6", "7", "8", "9">>

IsDigit(c) == \E i \in 1..10 : DigitChars[i] = c

DigitVal(c) == (CHOOSE i \in 1..10 : DigitChars[i] = c) - 1

Abs(n) == IF n < 0 THEN -n ELSE n

RECURSIVE NatStr(_)
NatStr(n) ==
    IF n < 10 THEN <<DigitChars[n + 1]>>
    ELSE NatStr(n \div 10) \o <<DigitChars[(n % 10) + 1]>>

\* str(int)
IntStr(n) == IF n < 0 THEN <<"-">> \o NatStr(-n) ELSE NatStr(n)

\* str(float) of a value of n hundredths: "5.0", "2.5", "-3.25"
FloatStr(n) ==
    LET a == Abs(n)
        frac == a % 100
        dec == IF frac % 10 = 0 THEN <<DigitChars[(frac \div 10) + 1]>>
               ELSE <<DigitChars[(frac \div 10) + 1], DigitChars[(frac % 10) + 1]>>
    IN  (IF n < 0 THEN <<"-">> ELSE <<>>) \o NatStr(a \div 100) \o <<".">> \o dec

\* DataFrame.astype(str) on one value
AsStr(v) ==
    CASE v.t = "int" -> IntStr(v.n)
      [] v.t = "float" -> FloatStr(v.n)
      [] v.t = "nan" -> <<"n", "a", "n">>
      [] OTHER -> v.s

AllDigits(s) == \A i \in 1..Len(s) : IsDigit(s[i])

RECURSIVE DigitsVal(_)
DigitsVal(s) ==
    IF Len(s) = 0 THEN 0
    ELSE 10 * DigitsVal(SubSeq(s, 1, Len(s) - 1)) + DigitVal(s[Len(s)])

HasSign(s) == Len(s) > 0 /\ s[1] \in {"-", "+"}

Unsigned(s) == IF HasSign(s) THEN Tail(s) ELSE s

Signed(s, n) == IF HasSign(s) /\ s[1] = "-" THEN -n ELSE n

\* int(s) does not raise ValueError
IntOK(s) == Len(Unsigned(s)) > 0 /\ AllDigits(Unsigned(s))

IntVal(s) == Signed(s, DigitsVal(Unsigned(s)))

DotPos(s) == {i \in 1..Len(s) : s[i] = "."}

IntPart(s) ==
    IF DotPos(s) = {} THEN s ELSE SubSeq(s, 1, (CHOOSE i \in DotPos(s) : TRUE) - 1)

FracPart(s) ==
    IF DotPos(s) = {} THEN <<>>
    ELSE SubSeq(s, (CHOOSE i \in DotPos(s) : TRUE) + 1, Len(s))

\* float(s) does not raise ValueError: [sign] digits [. digits], one digit at least
FloatOK(s) ==
    LET u == Unsigned(s)
    IN  /\ Cardinality(DotPos(u)) <= 1
        /\ AllDigits(IntPart(u))
        /\ AllDigits(FracPart(u))
        /\ Len(IntPart(u)) + Len(FracPart(u)) > 0

\* float(s), in hundredths
FloatVal(s) ==
    LET u == Unsigned(s)
        f == FracPart(u) \o <<"0", "0">>
    IN  Signed(s, 100 * DigitsVal(IntPart(u)) + DigitsVal(SubSeq(f, 1, 2)))

RECURSIVE Replace(_, _, _)
Replace(s, old, new) ==
    IF Len(s) = 0 THEN <<>>
    ELSE (IF Head(s) = old THEN new ELSE <<Head(s)>>) \o Replace(Tail(s), old, new)

parse_price(value) ==
    IF value.t \notin {"str", "float", "nan", "int"} THEN PyFloat(0)
    ELSE IF value.t = "str"
         THEN LET v == Replace(Replace(value.s, ".", <<>>), ",", <<".">>)
              IN  IF FloatOK(v) THEN PyFloat(FloatVal(v)) ELSE PyFloat(0)
         ELSE IF value.t = "int" THEN PyFloat(100 * value.n)
         ELSE value

\* unidecode.unidecode(c).upper() on the letters the model uses
Minusculas == <<"a", "á", "b", "c", "d", "e", "é", "f", "i", "l", "m", "p", "t">>

Mayusculas == <<"A", "A", "B", "C", "D", "E", "E", "F", "I", "L", "M", "P", "T">>

IsAlpha(c) == \E i \in 1..Len(Minusculas) : c \in {Minusculas[i], Mayusculas[i]}

UpperChar(c) ==
    IF \E i \in 1..Len(Minusculas) : Minusculas[i] = c
    THEN Mayusculas[CHOOSE i \in 1..Len(Minusculas) : Minusculas[i] = c]
    ELSE c

Upper(s) == [i \in 1..Len(s) |-> UpperChar(s[i])]

clean_input(text) == IF text.t # "str" THEN <<>> ELSE Upper(text.s)

RECURSIVE Strip(_)
Strip(s) ==
    IF Len(s) = 0 THEN s
    ELSE IF Head(s) = " " THEN Strip(Tail(s))
    ELSE IF s[Len(s)] = " " THEN Strip(SubSeq(s, 1, Len(s) - 1))
    ELSE s

Prefix(s, k) == SubSeq(s, 1, IF Len(s) < k THEN Len(s) ELSE k)

\* uuid is str(uuid.uuid4()) as drawn by the call
generar_sku(nombre, uuid) ==
    IF nombre.t = "nan" \/ nombre = PyStr(<<>>) \/ (nombre.t \in {"int", "float"} /\ nombre.n = 0)
    THEN PyStr(Upper(Prefix(uuid, 6)))
    ELSE LET nombre_limpio == clean_input(nombre)
             letras == Prefix(SelectSeq(nombre_limpio, IsAlpha), 3)
             numeros == SelectSeq(nombre_limpio, IsDigit)
         IN  PyStr(letras \o numeros \o <<"-">> \o Upper(Prefix(uuid, 3)))

(***************************************************************************)
(* Sheets, DataFrames and the table store adapter                          *)
(***************************************************************************)
INVENTARIO_SHEET_NAME == "Inventario"

VENTAS_SHEET_NAME == "Ventas"

INVENTARIO_COLS ==
    {"ID_PRODUCTO", "CODIGO_SKU", "NOMBRE_PRODUCTO", "CANTIDAD_ACTUAL",
     "COSTO_UNITARIO", "PRECIO_BASE", "PRECIO_PUBLICO", "UBICACION_FISICA"}

VENTAS_COLS ==
    {"ID_VENTA", "FECHA_HORA", "CODIGO_SKU_VENDIDO", "NOMBRE_PRODUCTO_VENDIDO",
     "CANTIDAD_UNIDADES", "TIPO_CLIENTE", "PRECIO_VENTA_FINAL",
     "COSTO_DEL_PRODUCTO_TOTAL", "GASTOS_DIRECTOS_VIAJE", "GANANCIA_NETA",
     "VENDEDOR_REGISTRA"}

\* the rows of t at the positions in S, in order
PickRows(t, S) ==
    LET F[i \in 0..Len(t)] ==
            IF i = 0 THEN <<>>
            ELSE IF i \in S THEN Append(F[i - 1], t[i]) ELSE F[i - 1]
    IN  F[Len(t)]

\* worksheet.get_all_records() turns every cell that reads as a number into one
numericise(s) ==
    IF IntOK(s) THEN PyInt(IntVal(s))
    ELSE IF FloatOK(s) THEN PyFloat(FloatVal(s))
    ELSE PyStr(s)

\* the DataFrame read from a sheet's rows, or the empty one when the read raises
read_sheet_to_df(rows, ok) ==
    IF ok THEN [i \in 1..Len(rows) |-> [c \in DOMAIN rows[i] |-> numericise(rows[i][c])]]
    ELSE <<>>

\* the rows written for a DataFrame: df.astype(str).values.tolist()
data_to_write(df) == [i \in 1..Len(df) |-> [c \in DOMAIN df[i] |-> AsStr(df[i][c])]]

\* float -> int, towards zero
Trunc(n) == IF n < 0 THEN -((-n) \div 100) ELSE n \div 100

\* pd.to_numeric(x, errors='coerce'), fillna(0), astype(int) on one value
to_numeric_int(v) ==
    CASE v.t = "int" -> PyInt(v.n)
      [] v.t = "float" -> PyInt(Trunc(v.n))
      [] v.t = "str" -> IF IntOK(v.s) THEN PyInt(IntVal(v.s))
                        ELSE IF FloatOK(v.s) THEN PyInt(Trunc(FloatVal(v.s)))
                        ELSE PyInt(0)
      [] OTHER -> PyInt(0)

\* load_data's cleaning of the inventory
limpiar_inventario(df) ==
    [i \in 1..Len(df) |-> LET r == df[i] IN
        [r EXCEPT !.CANTIDAD_ACTUAL = to_numeric_int(r.CANTIDAD_ACTUAL),
                  !.COSTO_UNITARIO = parse_price(r.COSTO_UNITARIO),
                  !.PRECIO_BASE = parse_price(r.PRECIO_BASE),
                  !.PRECIO_PUBLICO = parse_price(r.PRECIO_PUBLICO)]]

\* load_data's cleaning of the sales
limpiar_ventas(df) ==
    [i \in 1..Len(df) |-> LET r == df[i] IN
        [r EXCEPT !.CANTIDAD_UNIDADES = PyInt(Trunc(parse_price(r.CANTIDAD_UNIDADES).n)),
                  !.PRECIO_VENTA_FINAL = parse_price(r.PRECIO_VENTA_FINAL),
                  !.COSTO_DEL_PRODUCTO_TOTAL = parse_price(r.COSTO_DEL_PRODUCTO_TOTAL),
                  !.GASTOS_DIRECTOS_VIAJE = parse_price(r.GASTOS_DIRECTOS_VIAJE),
                  !.GANANCIA_NETA = parse_price(r.GANANCIA_NETA),
                  !.FECHA_HORA = PyStr(AsStr(r.FECHA_HORA))]]

(***************************************************************************)
(* The sale transaction                                                    *)
(***************************************************************************)
\* df['NOMBRE_PRODUCTO'].tolist(), as a set
Nombres(df) == {df[i].NOMBRE_PRODUCTO : i \in 1..Len(df)}

\* inventario_df[inventario_df['NOMBRE_PRODUCTO'] == nombre_producto].index
producto_index(inventario_df, nombre_producto) ==
    {i \in 1..Len(inventario_df) : inventario_df[i].NOMBRE_PRODUCTO = nombre_producto}

Min(S) == CHOOSE i \in S : \A j \in S : i <= j

\* mutant: a loss is recorded as a profit of zero
registro_venta_sin_perdida(producto, nombre_producto, cantidad, tipo_cliente, precio_final, gastos_viaje, vendedor, id_venta, fecha_hora) ==
    LET costo_unitario == parse_price(producto.COSTO_UNITARIO)
        costo_total_venta == costo_unitario.n * cantidad
        ganancia_neta == precio_final - costo_total_venta - gastos_viaje
    IN  [ID_VENTA |-> PyStr(id_venta),
         FECHA_HORA |-> PyStr(fecha_hora),
         CODIGO_SKU_VENDIDO |-> producto.CODIGO_SKU,
         NOMBRE_PRODUCTO_VENDIDO |-> nombre_producto,
         CANTIDAD_UNIDADES |-> PyInt(cantidad),
         TIPO_CLIENTE |-> PyStr(tipo_cliente),
         PRECIO_VENTA_FINAL |-> PyFloat(precio_final),
         COSTO_DEL_PRODUCTO_TOTAL |-> PyFloat(costo_total_venta),
         GASTOS_DIRECTOS_VIAJE |-> PyFloat(gastos_viaje),
         GANANCIA_NETA |-> PyFloat(IF ganancia_neta < 0 THEN 0 ELSE ganancia_neta),
         VENDEDOR_REGISTRA |-> PyStr(vendedor)]

\* precio_final and gastos_viaje are floats, in hundredths; cantidad is an int;
\* id_venta and fecha_hora are the uuid and the clock reading drawn by the call
registro_venta(producto, nombre_producto, cantidad, tipo_cliente, precio_final, gastos_viaje, vendedor, id_venta, fecha_hora) ==
    LET costo_unitario == parse_price(producto.COSTO_UNITARIO)
        costo_total_venta == costo_unitario.n * cantidad
        ganancia_neta == precio_final - costo_total_venta - gastos_viaje
    IN  [ID_VENTA |-> PyStr(id_venta),
         FECHA_HORA |-> PyStr(fecha_hora),
         CODIGO_SKU_VENDIDO |-> producto.CODIGO_SKU,
         NOMBRE_PRODUCTO_VENDIDO |-> nombre_producto,
         CANTIDAD_UNIDADES |-> PyInt(cantidad),
         TIPO_CLIENTE |-> PyStr(tipo_cliente),
         PRECIO_VENTA_FINAL |-> PyFloat(precio_final),
         COSTO_DEL_PRODUCTO_TOTAL |-> PyFloat(costo_total_venta),
         GASTOS_DIRECTOS_VIAJE |-> PyFloat(gastos_viaje),
         GANANCIA_NETA |-> PyFloat(ganancia_neta),
         VENDEDOR_REGISTRA |-> PyStr(vendedor)]

\* mutant: only an empty stock is turned down
stock_insuficiente_solo_agotado(cantidad_actual, cantidad) == cantidad_actual.n <= 0

\* CANTIDAD_ACTUAL is an int here: every caller passes load_data's tables
stock_insuficiente(cantidad_actual, cantidad) == cantidad_actual.n < cantidad

\* mutant: the decrement goes through a mask on the name, so to every record of that name
descontar_por_nombre(inventario_df, idx, cantidad) ==
    [i \in 1..Len(inventario_df) |->
        IF inventario_df[i].NOMBRE_PRODUCTO = inventario_df[idx].NOMBRE_PRODUCTO
        THEN [inventario_df[i] EXCEPT
                 !.CANTIDAD_ACTUAL = PyInt(inventario_df[i].CANTIDAD_ACTUAL.n - cantidad)]
        ELSE inventario_df[i]]

\* mutant: one unit leaves the stock whatever the sale
descontar_una_unidad(inventario_df, idx, cantidad) ==
    [inventario_df EXCEPT
        ![idx].CANTIDAD_ACTUAL = PyInt(inventario_df[idx].CANTIDAD_ACTUAL.n - 1)]

\* inventario_df.loc[idx, 'CANTIDAD_ACTUAL'] -= cantidad
descontar(inventario_df, idx, cantidad) ==
    [inventario_df EXCEPT
        ![idx].CANTIDAD_ACTUAL = PyInt(inventario_df[idx].CANTIDAD_ACTUAL.n - cantidad)]

\* mutant: the stock is taken before it is checked, and the early return hands it back so
registrar_venta_descuenta_antes(inventario_df, ventas_df, nombre_producto, cantidad, tipo_cliente, precio_final, gastos_viaje, vendedor, id_venta, fecha_hora) ==
    LET pidx == producto_index(inventario_df, nombre_producto)
    IN  IF pidx = {} THEN [inv |-> inventario_df, ven |-> ventas_df, exito |-> FALSE]
        ELSE LET idx == Min(pidx)
                 producto == inventario_df[idx]
                 descontado == descontar(inventario_df, idx, cantidad)
             IN  IF stock_insuficiente(producto.CANTIDAD_ACTUAL, cantidad)
                 THEN [inv |-> descontado, ven |-> ventas_df, exito |-> FALSE]
                 ELSE [inv |-> descontado,
                       ven |-> <<registro_venta(producto, nombre_producto, cantidad,
                                                tipo_cliente, precio_final, gastos_viaje,
                                                vendedor, id_venta, fecha_hora)>>
                               \o ventas_df,
                       exito |-> TRUE]

registrar_venta(inventario_df, ventas_df, nombre_producto, cantidad, tipo_cliente, precio_final, gastos_viaje, vendedor, id_venta, fecha_hora) ==
    LET pidx == producto_index(inventario_df, nombre_producto)
        sin_cambio == [inv |-> inventario_df, ven |-> ventas_df, exito |-> FALSE]
    IN  IF pidx = {} THEN sin_cambio
        ELSE LET idx == Min(pidx)
                 producto == inventario_df[idx]
             IN  IF stock_insuficiente(producto.CANTIDAD_ACTUAL, cantidad) THEN sin_cambio
                 ELSE [inv |-> descontar(inventario_df, idx, cantidad),
                       ven |-> <<registro_venta(producto, nombre_producto, cantidad,
                                                tipo_cliente, precio_final, gastos_viaje,
                                                vendedor, id_venta, fecha_hora)>>
                               \o ventas_df,
                       exito |-> TRUE]

(***************************************************************************)
(* Inventory operations                                                    *)
(***************************************************************************)
\* mutant: only the first record of the name is dropped
eliminar_primero(inventario_df, nombre_producto) ==
    PickRows(inventario_df,
             {i \in 1..Len(inventario_df) :
                 producto_index(inventario_df, nombre_producto) # {}
                     => i # Min(producto_index(inventario_df, nombre_producto))})

eliminar_producto(inventario_df, nombre_producto) ==
    SelectSeq(inventario_df, LAMBDA r : r.NOMBRE_PRODUCTO # nombre_producto)

\* the upload with an ID_PRODUCTO per row and a CODIGO_SKU where the file has none;
\* ids[i] and skus[i] are the uuids drawn for row i
df_a_cargar(csv, ids, skus) ==
    [i \in 1..Len(csv) |->
        [c \in INVENTARIO_COLS |->
            IF c = "ID_PRODUCTO" THEN PyStr(Prefix(ids[i], 8))
            ELSE IF c = "CODIGO_SKU"
                    /\ (csv[i].CODIGO_SKU.t = "nan" \/ Strip(AsStr(csv[i].CODIGO_SKU)) = <<>>)
                 THEN generar_sku(csv[i].NOMBRE_PRODUCTO, skus[i])
                 ELSE csv[i][c]]]

\* mutant: the first record of a name is kept
drop_duplicates_first(df) ==
    PickRows(df, {i \in 1..Len(df) :
                    \A j \in 1..(i - 1) :
                        df[j].NOMBRE_PRODUCTO # df[i].NOMBRE_PRODUCTO})

\* DataFrame.drop_duplicates(subset=['NOMBRE_PRODUCTO'], keep='last')
drop_duplicates_last(df) ==
    PickRows(df, {i \in 1..Len(df) :
                    \A j \in (i + 1)..Len(df) :
                        df[j].NOMBRE_PRODUCTO # df[i].NOMBRE_PRODUCTO})

\* pd.concat of the loaded inventory and the upload, then the deduplication
fusionar(inventario_df, carga) == drop_duplicates_last(inventario_df \o carga)

(***************************************************************************)
(* State                                                                   *)
(***************************************************************************)
VARIABLES
    hojas,          \* the spreadsheet: sheet name -> rows of string cells
    cache,          \* st.cache_data of read_sheet_to_df: sheet name -> [hay, ok]
    inventario_df,  \* st.session_state['inventario_df']
    ventas_df,      \* st.session_state['ventas_df']
    last,           \* the last operation run: its inputs, the tables it worked on, its outcome
    fallos,         \* the reads and writes of the spreadsheet that have failed so far
    operaciones     \* the clicks of the session that have saved the tables so far

vars == <<hojas, cache, inventario_df, ventas_df, last, fallos, operaciones>>

(***************************************************************************)
(* Bounds and input sets                                                   *)
(***************************************************************************)
\* sale records a table holds before registrar_venta is no longer called on it
MaxVentas == 2

\* the largest number of units asked for in one sale
MaxCantidad == 2

\* rows an inventory holds before no further upload is merged into it
MaxFilas == 3

\* reads and writes of the spreadsheet that fail in one session
MaxFallos == 1

\* clicks of one session that save the tables: sales, deletions, uploads
MaxOperaciones == 2

LAM1 == <<"l", "á", "m", "1">>

PILA == <<"p", "i", "l", "a">>

TE == <<"t", "é">>

\* sheet rows an operator may have typed: a name twice, a quantity that is no
\* number, costs with a decimal comma, with a decimal point, and blank
FilaHoja(id, sku, nombre, cantidad, costo) ==
    [ID_PRODUCTO |-> id, CODIGO_SKU |-> sku, NOMBRE_PRODUCTO |-> nombre,
     CANTIDAD_ACTUAL |-> cantidad, COSTO_UNITARIO |-> costo,
     PRECIO_BASE |-> <<"8">>, PRECIO_PUBLICO |-> <<"9", ",", "5">>,
     UBICACION_FISICA |-> <<"E", "1">>]

F1 == FilaHoja(<<"a", "1">>, <<"L", "A", "M", "1", "-", "0", "A", "F">>, LAM1, <<"2">>, <<"5">>)

F2 == FilaHoja(<<"a", "2">>, <<"L", "A", "M", "1", "-", "B", "B", "2">>, LAM1, <<"3">>, <<"2", ",", "5">>)

F3 == FilaHoja(<<"a", "3">>, <<"P", "I", "L", "-", "C", "0", "1">>, PILA, <<"1">>, <<"1", ".", "5">>)

F4 == FilaHoja(<<"a", "4">>, <<>>, PILA, <<"x">>, <<>>)

HojasInventario == {<<>>, <<F1, F3>>, <<F2, F1>>, <<F4, F3>>, <<F3, F1, F2>>}

\* a sale written by an earlier session
V0 ==
    [ID_VENTA |-> <<"f", "0", "0", "d">>, FECHA_HORA |-> <<"t", "0">>,
     CODIGO_SKU_VENDIDO |-> <<"P", "I", "L", "-", "C", "0", "1">>,
     NOMBRE_PRODUCTO_VENDIDO |-> PILA, CANTIDAD_UNIDADES |-> <<"1">>,
     TIPO_CLIENTE |-> <<"Mayorista">>, PRECIO_VENTA_FINAL |-> <<"1", ".", "0">>,
     COSTO_DEL_PRODUCTO_TOTAL |-> <<"1", ".", "5">>,
     GASTOS_DIRECTOS_VIAJE |-> <<"0", ".", "0">>, GANANCIA_NETA |-> <<"-", "0", ".", "5">>,
     VENDEDOR_REGISTRA |-> <<"Amanda">>]

HojasVentas == {<<>>, <<V0>>}

\* what the operator fills in: customer type, final price and expenses as typed, operator
Formulario(tipo, precio, gastos, vendedor) ==
    [tipo_cliente |-> tipo, precio_final_str |-> precio, gastos_viaje_str |-> gastos,
     vendedor |-> vendedor]

\* a price above zero: the profit is 0.5 for a cost of 5 and negative beyond
FormularioVenta == Formulario(<<"Mayorista">>, <<"7", ",", "5">>, <<"2">>, <<"Amanda">>)

\* a price of zero, which the sale form turns down
FormularioCero == Formulario(<<"Minorista">>, <<"0">>, <<"0">>, <<"Martin">>)

Formularios == {FormularioVenta, FormularioCero}

\* str(uuid.uuid4()) and datetime.now().strftime(...), as drawn by one call
UUID1 == <<"c", "4", "e", "9", "0", "b", "7", "a">>

UUID2 == <<"1", "d", "2", "f", "3", "3", "a", "0">>

UUIDs == {UUID1, UUID2}

AHORA == <<"t", "1">>

Inicio ==
    [op |-> "inicio", nombre |-> PyStr(<<>>), cantidad |-> 0, precio |-> 0, gastos |-> 0,
     exito |-> FALSE, recargo |-> FALSE, inv |-> <<>>, ven |-> <<>>, carga |-> <<>>,
     guardado |-> "no"]

SinCache == [hay |-> FALSE, ok |-> TRUE]

(***************************************************************************)
(* registrar_venta called on loaded tables with any arguments              *)
(***************************************************************************)
NombresLibres == {PyStr(LAM1), PyStr(PILA), PyStr(TE)}

CantidadesLibres == (-1)..MaxCantidad

InitVenta ==
    /\ \E hi \in HojasInventario, hv \in HojasVentas :
          hojas = [h \in {INVENTARIO_SHEET_NAME, VENTAS_SHEET_NAME} |->
                      IF h = INVENTARIO_SHEET_NAME THEN hi ELSE hv]
    /\ cache = [h \in {INVENTARIO_SHEET_NAME, VENTAS_SHEET_NAME} |-> SinCache]
    /\ inventario_df = limpiar_inventario(
                           read_sheet_to_df(hojas[INVENTARIO_SHEET_NAME], TRUE))
    /\ ventas_df = limpiar_ventas(read_sheet_to_df(hojas[VENTAS_SHEET_NAME], TRUE))
    /\ last = Inicio
    /\ fallos = 0
    /\ operaciones = 0

LlamarRegistrarVenta ==
    /\ Len(ventas_df) < MaxVentas
    /\ \E nombre \in NombresLibres, cantidad \in CantidadesLibres, f \in {FormularioVenta},
          u \in {UUID1} :
       \E precio \in {parse_price(PyStr(f.precio_final_str)).n},
          gastos \in {parse_price(PyStr(f.gastos_viaje_str)).n} :
       \E r \in {registrar_venta(inventario_df, ventas_df, nombre, cantidad,
                                 f.tipo_cliente, precio, gastos, f.vendedor,
                                 Prefix(u, 8), AHORA)} :
          /\ inventario_df' = r.inv
          /\ ventas_df' = r.ven
          /\ last' = [op |-> "venta", nombre |-> nombre, cantidad |-> cantidad,
                      precio |-> precio, gastos |-> gastos, exito |-> r.exito,
                      recargo |-> FALSE, inv |-> inventario_df, ven |-> ventas_df,
                      carga |-> <<>>, guardado |-> "no"]
    /\ UNCHANGED <<hojas, cache, fallos, operaciones>>

NextVenta == LlamarRegistrarVenta

SpecVenta == InitVenta /\ [][NextVenta]_vars

(***************************************************************************)
(* eliminar_producto and the merge of an upload, called on loaded tables   *)
(***************************************************************************)
\* rows of an uploaded file as read_csv types them
FilaCSV(sku, nombre, cantidad, costo) ==
    [CODIGO_SKU |-> sku, NOMBRE_PRODUCTO |-> nombre, CANTIDAD_ACTUAL |-> cantidad,
     COSTO_UNITARIO |-> costo, PRECIO_BASE |-> PyInt(7), PRECIO_PUBLICO |-> PyFloat(950),
     UBICACION_FISICA |-> PyStr(<<"E", "2">>)]

G1 == FilaCSV(PyNaN, PyStr(LAM1), PyInt(4), PyStr(<<"6", ",", "5">>))

G2 == FilaCSV(PyStr(<<"L", "-", "9">>), PyStr(LAM1), PyInt(1), PyStr(<<"3">>))

G3 == FilaCSV(PyStr(<<" ">>), PyStr(TE), PyInt(2), PyStr(<<"1", ".", "0", "0", "0">>))

ArchivosCSV == {<<G1>>, <<G3>>, <<G1, G2>>, <<G2, G3>>}

\* the files uploaded in a session
ArchivosSesion == {<<G3>>, <<G1, G2>>}

\* the uuids drawn for the rows of an upload, in the order of the draws
SorteoIgual(n) == [i \in 1..n |-> UUID1]

SorteoAlterno(n) == [i \in 1..n |-> IF i % 2 = 1 THEN UUID2 ELSE UUID1]

Sorteos(n) == {SorteoIgual(n), SorteoAlterno(n)}

LlamarEliminarProducto ==
    /\ \E nombre \in NombresLibres :
          /\ inventario_df' = eliminar_producto(inventario_df, nombre)
          /\ last' = [Inicio EXCEPT !.op = "eliminar", !.nombre = nombre,
                                    !.inv = inventario_df, !.ven = ventas_df]
    /\ UNCHANGED <<hojas, cache, ventas_df, fallos, operaciones>>

LlamarFusionar ==
    /\ Len(inventario_df) <= MaxFilas
    /\ \E csv \in ArchivosCSV :
       \E us \in Sorteos(2 * Len(csv)) :
       \E nuevo \in {df_a_cargar(csv, SubSeq(us, 1, Len(csv)),
                                 SubSeq(us, Len(csv) + 1, 2 * Len(csv)))} :
          /\ inventario_df' = fusionar(inventario_df, nuevo)
          /\ last' = [Inicio EXCEPT !.op = "carga", !.inv = inventario_df,
                                    !.ven = ventas_df, !.carga = nuevo]
    /\ UNCHANGED <<hojas, cache, ventas_df, fallos, operaciones>>

NextInventario == LlamarEliminarProducto \/ LlamarFusionar

SpecInventario == InitVenta /\ [][NextInventario]_vars

(***************************************************************************)
(* The application: one session over the spreadsheet                       *)
(***************************************************************************)
SIN_SELECCION == PyStr(<<"Seleccione un Producto">>)

SIN_ELIMINAR == PyStr(<<"Seleccione un Producto para eliminar">>)

\* mutant: the quantity field starts at zero
Cantidades_desde_cero == 0..MaxCantidad

\* st.number_input(min_value=1, value=1, step=1)
Cantidades == 1..MaxCantidad

\* how save_data ends: both sheets written, or write_df_to_sheet stopping the
\* script on the first or the second sheet, before or after worksheet.clear()
Escrituras == {"ok", "inv_falla", "inv_vacia", "ven_falla", "ven_vacia"}

\* the outcomes the store may still produce: reads and writes fail MaxFallos times at most
LecturasPosibles ==
    {l \in [inv : BOOLEAN, ven : BOOLEAN] :
        /\ cache[INVENTARIO_SHEET_NAME].hay => l.inv
        /\ cache[VENTAS_SHEET_NAME].hay => l.ven
        /\ fallos + (IF l.inv THEN 0 ELSE 1) + (IF l.ven THEN 0 ELSE 1) <= MaxFallos}

EscriturasPosibles(leidas) ==
    {res \in Escrituras :
        res # "ok" => fallos + (IF leidas.inv THEN 0 ELSE 1)
                             + (IF leidas.ven THEN 0 ELSE 1) < MaxFallos}

Fallidas(leidas, res) ==
    (IF leidas.inv THEN 0 ELSE 1) + (IF leidas.ven THEN 0 ELSE 1)
        + (IF res = "ok" THEN 0 ELSE 1)

SinFallo == [inv |-> TRUE, ven |-> TRUE]

\* read_sheet_to_df behind st.cache_data.  A cached DataFrame is kept as the
\* outcome of the read that filled it: save_data clears the cache before it
\* writes, so a cached entry is always a read of the sheet as it stands.
leer(hoja, ok) ==
    read_sheet_to_df(hojas[hoja], IF cache[hoja].hay THEN cache[hoja].ok ELSE ok)

load_data(leidas) ==
    [inv |-> limpiar_inventario(leer(INVENTARIO_SHEET_NAME, leidas.inv)),
     ven |-> limpiar_ventas(leer(VENTAS_SHEET_NAME, leidas.ven))]

\* the cache after load_data
cache_cargado(leidas) ==
    [h \in {INVENTARIO_SHEET_NAME, VENTAS_SHEET_NAME} |->
        IF cache[h].hay THEN cache[h]
        ELSE [hay |-> TRUE,
              ok |-> IF h = INVENTARIO_SHEET_NAME THEN leidas.inv ELSE leidas.ven]]

\* the cache after st.cache_data.clear()
cache_vacio == [h \in {INVENTARIO_SHEET_NAME, VENTAS_SHEET_NAME} |-> SinCache]

\* the spreadsheet after save_data(inventario, ventas) ending as res
save_data(inventario, ventas, res) ==
    [h \in {INVENTARIO_SHEET_NAME, VENTAS_SHEET_NAME} |->
        IF h = INVENTARIO_SHEET_NAME
        THEN CASE res = "inv_falla" -> hojas[h]
               [] res = "inv_vacia" -> <<>>
               [] OTHER -> data_to_write(inventario)
        ELSE CASE res \in {"inv_falla", "inv_vacia", "ven_falla"} -> hojas[h]
               [] res = "ven_vacia" -> <<>>
               [] OTHER -> data_to_write(ventas)]

\* the names the search box can offer: a term of three characters or more is
\* part of the cleaned name or of the cleaned SKU
sugerencias(df) ==
    {df[i].NOMBRE_PRODUCTO : i \in
        {j \in 1..Len(df) :
            \/ Len(clean_input(PyStr(AsStr(df[j].NOMBRE_PRODUCTO)))) >= 3
            \/ Len(clean_input(PyStr(AsStr(df[j].CODIGO_SKU)))) >= 3}}

\* mutant: the tables are saved whatever registrar_venta returned
guardar_siempre(exito) == TRUE

\* if exito: save_data(...)
guardar_si(exito) == exito

Init ==
    /\ fallos = 0
    /\ operaciones = 0
    /\ \E hi \in HojasInventario, hv \in HojasVentas :
          hojas = [h \in {INVENTARIO_SHEET_NAME, VENTAS_SHEET_NAME} |->
                      IF h = INVENTARIO_SHEET_NAME THEN hi ELSE hv]
    /\ cache = [h \in {INVENTARIO_SHEET_NAME, VENTAS_SHEET_NAME} |->
                   [hay |-> TRUE, ok |-> TRUE]]
    /\ inventario_df = limpiar_inventario(
                           read_sheet_to_df(hojas[INVENTARIO_SHEET_NAME], TRUE))
    /\ ventas_df = limpiar_ventas(read_sheet_to_df(hojas[VENTAS_SHEET_NAME], TRUE))
    /\ last = [Inicio EXCEPT !.recargo = TRUE, !.inv = inventario_df, !.ven = ventas_df]

\* the button of mostrar_registro_ventas, with a product selected and a price above zero
RegistrarVenta ==
    /\ operaciones < MaxOperaciones
    /\ \E f \in Formularios, leidas \in LecturasPosibles :
       \E precio_final \in {parse_price(PyStr(f.precio_final_str)).n},
          gastos_viaje \in {parse_price(PyStr(f.gastos_viaje_str)).n},
          leido \in {load_data(leidas)} :
          /\ precio_final > 0
          /\ \E nombre \in sugerencias(inventario_df) \ {SIN_SELECCION, PyStr(<<>>)},
                cantidad \in Cantidades,
                u \in {IF Len(leido.ven) % 2 = 0 THEN UUID1 ELSE UUID2} :
             \E r \in {registrar_venta(leido.inv, leido.ven, nombre, cantidad,
                                       f.tipo_cliente, precio_final, gastos_viaje,
                                       f.vendedor, Prefix(u, 8), AHORA)} :
             \E res \in IF guardar_si(r.exito) THEN EscriturasPosibles(leidas) ELSE {"no"} :
                /\ inventario_df' = r.inv
                /\ ventas_df' = r.ven
                /\ IF res = "no"
                   THEN /\ hojas' = hojas
                        /\ cache' = cache_cargado(leidas)
                   ELSE /\ hojas' = save_data(r.inv, r.ven, res)
                        /\ cache' = cache_vacio
                /\ fallos' = fallos + Fallidas(leidas, IF res = "no" THEN "ok" ELSE res)
                /\ operaciones' = IF res = "no" THEN operaciones ELSE operaciones + 1
                /\ last' = [op |-> "venta", nombre |-> nombre, cantidad |-> cantidad,
                            precio |-> precio_final, gastos |-> gastos_viaje,
                            exito |-> r.exito, recargo |-> TRUE, inv |-> leido.inv,
                            ven |-> leido.ven, carga |-> <<>>, guardado |-> res]

\* the same button with no product selected or a price that is not above zero
RegistrarVentaRechazada ==
    /\ \E nombre \in sugerencias(inventario_df) \cup {SIN_SELECCION}, f \in Formularios :
          /\ \/ nombre \in {SIN_SELECCION, PyStr(<<>>)}
             \/ parse_price(PyStr(f.precio_final_str)).n <= 0
          /\ last' = [Inicio EXCEPT !.op = "venta_rechazada"]
    /\ UNCHANGED <<hojas, cache, inventario_df, ventas_df, fallos, operaciones>>

\* the button of mostrar_inventario with a product chosen
EliminarProducto ==
    /\ operaciones < MaxOperaciones
    /\ \E nombre \in Nombres(inventario_df) \ {SIN_ELIMINAR},
          res \in EscriturasPosibles(SinFallo) :
       \E quedan \in {eliminar_producto(inventario_df, nombre)} :
          /\ inventario_df' = quedan
          /\ hojas' = save_data(quedan, ventas_df, res)
          /\ fallos' = fallos + Fallidas(SinFallo, res)
          /\ last' = [Inicio EXCEPT !.op = "eliminar", !.nombre = nombre,
                                    !.inv = inventario_df, !.ven = ventas_df,
                                    !.guardado = res]
    /\ cache' = cache_vacio
    /\ operaciones' = operaciones + 1
    /\ UNCHANGED ventas_df

\* mostrar_carga_masiva with a file that holds the seven columns
CargaMasiva ==
    /\ operaciones < MaxOperaciones
    /\ \E leidas \in LecturasPosibles :
       \E leido \in {load_data(leidas)}, csv \in ArchivosSesion,
          res \in EscriturasPosibles(leidas) :
       \E us \in {SorteoAlterno(2 * Len(csv))} :
       \E nuevo \in {df_a_cargar(csv, SubSeq(us, 1, Len(csv)),
                                 SubSeq(us, Len(csv) + 1, 2 * Len(csv)))} :
       \E fusionado \in {fusionar(leido.inv, nuevo)} :
          /\ inventario_df' = fusionado
          /\ ventas_df' = leido.ven
          /\ hojas' = save_data(fusionado, leido.ven, res)
          /\ fallos' = fallos + Fallidas(leidas, res)
          /\ last' = [Inicio EXCEPT !.op = "carga", !.recargo = TRUE,
                                    !.inv = leido.inv, !.ven = leido.ven,
                                    !.carga = nuevo, !.guardado = res]
    /\ cache' = cache_vacio
    /\ operaciones' = operaciones + 1

\* the page "Reportes de Venta" reloads both tables
VerReportes ==
    /\ \E leidas \in LecturasPosibles :
       \E leido \in {load_data(leidas)} :
          /\ inventario_df' = leido.inv
          /\ ventas_df' = leido.ven
          /\ cache' = cache_cargado(leidas)
          /\ fallos' = fallos + Fallidas(leidas, "ok")
          /\ last' = [Inicio EXCEPT !.op = "reportes", !.recargo = TRUE,
                                    !.inv = leido.inv, !.ven = leido.ven]
    /\ UNCHANGED <<hojas, operaciones>>

\* a cached read is five seconds old
ExpirarCache ==
    /\ \E h \in {INVENTARIO_SHEET_NAME, VENTAS_SHEET_NAME} : cache[h].hay
    /\ cache' = cache_vacio
    /\ UNCHANGED <<hojas, inventario_df, ventas_df, last, fallos, operaciones>>

Next ==
    \/ RegistrarVenta
    \/ RegistrarVentaRechazada
    \/ EliminarProducto
    \/ CargaMasiva
    \/ VerReportes
    \/ ExpirarCache

Spec == Init /\ [][Next]_vars

(***************************************************************************)
(* Sale transaction: properties                                            *)
(***************************************************************************)
\* the record registrar_venta matched in the inventory it was given
Coincidencias == producto_index(last.inv, last.nombre)

VentaHecha == last.op = "venta" /\ last.exito

VentaFallida == last.op = "venta" /\ ~last.exito

\* C1: from an inventory whose quantities are non-negative integers, after any
\* calls of registrar_venta (any name, any integer units, succeeding or failing)
\* every inventory record has quantity_on_hand >= 0.
C1_StockNoNegativo ==
    \A i \in 1..Len(inventario_df) :
        /\ inventario_df[i].CANTIDAD_ACTUAL.t = "int"
        /\ inventario_df[i].CANTIDAD_ACTUAL.n >= 0

\* a sale that took the whole stock of the matched record
C1_Witness ==
    /\ VentaHecha
    /\ last.cantidad > 0
    /\ last.inv[Min(Coincidencias)].CANTIDAD_ACTUAL.n = last.cantidad
    /\ inventario_df[Min(Coincidencias)].CANTIDAD_ACTUAL.n = 0

\* C2: when registrar_venta is given a name no record has, or more units than
\* the matched record holds, it returns the failure flag and both tables as
\* they were given.
C2_FalloSinCambio ==
    (/\ last.op = "venta"
     /\ \/ Coincidencias = {}
        \/ last.inv[Min(Coincidencias)].CANTIDAD_ACTUAL.n < last.cantidad)
    => (/\ ~last.exito
        /\ inventario_df = last.inv
        /\ ventas_df = last.ven)

\* a call turned down for lack of stock, with rows in both tables
C2_Witness ==
    /\ VentaFallida
    /\ Coincidencias # {}
    /\ last.inv[Min(Coincidencias)].CANTIDAD_ACTUAL.n < last.cantidad
    /\ Len(last.inv) > 1
    /\ Len(last.ven) > 0

\* C3: the record of a successful sale has total_product_cost = unit_cost of
\* the matched record times units, and net_profit = final_price -
\* total_product_cost - direct_expenses, negative when cost and expenses exceed
\* the price.
C3_CostoYGanancia ==
    VentaHecha =>
        LET producto == last.inv[Min(Coincidencias)]
            registro == ventas_df[1]
        IN  /\ registro.COSTO_DEL_PRODUCTO_TOTAL
                 = PyFloat(producto.COSTO_UNITARIO.n * last.cantidad)
            /\ registro.GANANCIA_NETA
                 = PyFloat(last.precio - producto.COSTO_UNITARIO.n * last.cantidad
                             - last.gastos)

\* a sale at a loss
C3_Witness ==
    /\ VentaHecha
    /\ last.cantidad > 0
    /\ ventas_df[1].GANANCIA_NETA.n < 0
    /\ ventas_df[1].COSTO_DEL_PRODUCTO_TOTAL.n > 0

\* C4: a successful sale takes exactly units from the quantity of the matched
\* record, the first of that name, and changes no other record and no other field.
C4_SoloElStockDelProducto ==
    VentaHecha =>
        /\ Len(inventario_df) = Len(last.inv)
        /\ \A i \in 1..Len(last.inv) : \A c \in INVENTARIO_COLS :
              inventario_df[i][c] =
                  IF i = Min(Coincidencias) /\ c = "CANTIDAD_ACTUAL"
                  THEN PyInt(last.inv[i][c].n - last.cantidad)
                  ELSE last.inv[i][c]

\* a sale of a name that two records carry
C4_Witness ==
    /\ VentaHecha
    /\ last.cantidad > 0
    /\ Cardinality(Coincidencias) > 1

(***************************************************************************)
(* Inventory operations: properties                                        *)
(***************************************************************************)
\* the positions of df whose record is not named nombre
OtrasFilas(df, nombre) == {i \in 1..Len(df) : df[i].NOMBRE_PRODUCTO # nombre}

\* C6: eliminar_producto drops every record of exactly the given name, keeps the
\* others unchanged and in order, changes nothing for a name the table does not
\* hold, and does nothing more when it is applied a second time.
C6_EliminarIdempotente ==
    /\ last.op = "eliminar" =>
          /\ inventario_df = PickRows(last.inv, OtrasFilas(last.inv, last.nombre))
          /\ last.nombre \notin Nombres(inventario_df)
          /\ (last.nombre \notin Nombres(last.inv) => inventario_df = last.inv)
    /\ \A nombre \in NombresLibres :
          eliminar_producto(eliminar_producto(inventario_df, nombre), nombre)
              = eliminar_producto(inventario_df, nombre)

\* a deletion that took two records of one name and left a third record
C6_Witness ==
    /\ last.op = "eliminar"
    /\ Cardinality(producto_index(last.inv, last.nombre)) = 2
    /\ Len(inventario_df) = 1

\* the last record of each name of df
Ultimas(df) ==
    {i \in 1..Len(df) :
        \A j \in (i + 1)..Len(df) : df[j].NOMBRE_PRODUCTO # df[i].NOMBRE_PRODUCTO}

\* the records of df whose name the upload does not carry
Ajenas(df, carga) == {i \in 1..Len(df) : df[i].NOMBRE_PRODUCTO \notin Nombres(carga)}

\* each name of the upload has one record in the table, the last uploaded of that name
ImportadasGanan ==
    \A k \in Ultimas(last.carga) :
        /\ Cardinality(producto_index(inventario_df, last.carga[k].NOMBRE_PRODUCTO)) = 1
        /\ \E i \in 1..Len(inventario_df) : inventario_df[i] = last.carga[k]

\* C7 as stated: after the merge each uploaded name has exactly one record, the
\* last uploaded of that name, and every existing record of a name the upload
\* does not carry is still in the table, untouched.
C7_Original ==
    last.op = "carga" =>
        /\ ImportadasGanan
        /\ SelectSeq(inventario_df, LAMBDA r : r.NOMBRE_PRODUCTO \notin Nombres(last.carga))
             = PickRows(last.inv, Ajenas(last.inv, last.carga))

\* C7 amended: of the existing records of a name the upload does not carry, the
\* last of each name is still in the table, untouched and in order, and the
\* earlier ones of that name are dropped.
C7_FusionUltimoGana ==
    last.op = "carga" =>
        /\ ImportadasGanan
        /\ SelectSeq(inventario_df, LAMBDA r : r.NOMBRE_PRODUCTO \notin Nombres(last.carga))
             = PickRows(last.inv, Ajenas(last.inv, last.carga) \cap Ultimas(last.inv))

\* an upload carrying a name twice, one the table holds already, beside a record
\* of another name
C7_Witness ==
    /\ last.op = "carga"
    /\ Len(last.carga) > Cardinality(Nombres(last.carga))
    /\ Nombres(last.carga) \cap Nombres(last.inv) # {}
    /\ Ajenas(last.inv, last.carga) # {}

(***************************************************************************)
(* The application: properties                                             *)
(***************************************************************************)
\* the Sales Table the spreadsheet holds, as a read that succeeds returns it
VentasGuardadas(h) == limpiar_ventas(read_sheet_to_df(h[VENTAS_SHEET_NAME], TRUE))

\* the records of antes are the last records of despues, unchanged and in order
SiguenAlFinal(antes, despues) ==
    /\ Len(despues) >= Len(antes)
    /\ SubSeq(despues, Len(despues) - Len(antes) + 1, Len(despues)) = antes

\* C5: across sales, deletions, uploads, reloads and whole-table writes, also
\* when a read of the store fails and gives an empty table, every sale record
\* the Sales Table of the store held is still there, unchanged and in the same
\* order, behind the records added since.
C5_VentasSoloSeAgregan ==
    [][SiguenAlFinal(VentasGuardadas(hojas), VentasGuardadas(hojas'))]_vars

\* C8: every click that saves the tables (sale, deletion, upload) has called
\* load_data first, and the tables it worked on are the ones that read of the
\* spreadsheet returned.
C8_RecargaAntesDeEscribir ==
    [][operaciones' # operaciones =>
          /\ last'.recargo
          /\ \E leidas \in [inv : BOOLEAN, ven : BOOLEAN] :
                /\ last'.inv = load_data(leidas).inv
                /\ last'.ven = load_data(leidas).ven]_vars

\* C9: the record of a sale made through the form has units_sold that is an
\* integer of at least 1 and at most the quantity the matched record had in
\* the inventory reloaded for that sale.
C9_UnidadesVendidas ==
    VentaHecha =>
        /\ ventas_df[1].CANTIDAD_UNIDADES = PyInt(last.cantidad)
        /\ ventas_df[1].CANTIDAD_UNIDADES.n >= 1
        /\ ventas_df[1].CANTIDAD_UNIDADES.n
             <= last.inv[Min(Coincidencias)].CANTIDAD_ACTUAL.n

\* a sale through the form of all the units the reloaded record had, recorded
\* in front of an older sale
C9_Witness ==
    /\ VentaHecha
    /\ last.recargo
    /\ Len(ventas_df) > 1
    /\ ventas_df[1].CANTIDAD_UNIDADES.n = last.inv[Min(Coincidencias)].CANTIDAD_ACTUAL.n

\* C10: a click on the sale button that registrar_venta turns down (no such
\* product, not enough stock), or that the form rejects (no product selected,
\* price not above zero), writes no sheet: the spreadsheet keeps both tables.
C10_SinExitoNoSeEscribe ==
    [][(last'.op \in {"venta", "venta_rechazada"} /\ ~last'.exito /\ last' # last) =>
          /\ hojas' = hojas
          /\ last'.guardado = "no"]_vars

\* a sale turned down for lack of stock after the reload, the spreadsheet
\* holding an earlier sale
C10_Witness ==
    /\ VentaFallida
    /\ last.recargo
    /\ Coincidencias # {}
    /\ hojas[VENTAS_SHEET_NAME] # <<>>

(***************************************************************************)
(* Stock conservation                                                      *)
(***************************************************************************)
\* the inventory the calls of registrar_venta started from
InventarioInicial == limpiar_inventario(read_sheet_to_df(hojas[INVENTARIO_SHEET_NAME], TRUE))

\* the sale records added since the start: the ones in front of the loaded ones
VentasAgregadas ==
    SubSeq(ventas_df, 1, Len(ventas_df) - Len(VentasGuardadas(hojas)))

NombresDistintos(df) ==
    \A i, j \in 1..Len(df) : df[i].NOMBRE_PRODUCTO = df[j].NOMBRE_PRODUCTO => i = j

RECURSIVE UnidadesVendidas(_, _)
\* the sum of units_sold over the records of ventas for the name
UnidadesVendidas(ventas, nombre) ==
    IF ventas = <<>> THEN 0
    ELSE (IF Head(ventas).NOMBRE_PRODUCTO_VENDIDO = nombre
          THEN Head(ventas).CANTIDAD_UNIDADES.n ELSE 0)
         + UnidadesVendidas(Tail(ventas), nombre)

\* C11: from an inventory of pairwise distinct names, after any calls of
\* registrar_venta and nothing else, every product's initial quantity is its
\* current quantity plus the units_sold of the sale records added for its name.
C11_ConservacionDeStock ==
    NombresDistintos(InventarioInicial) =>
        /\ Len(inventario_df) = Len(InventarioInicial)
        /\ \A i \in 1..Len(InventarioInicial) :
              /\ inventario_df[i].NOMBRE_PRODUCTO = InventarioInicial[i].NOMBRE_PRODUCTO
              /\ InventarioInicial[i].CANTIDAD_ACTUAL.n
                   = inventario_df[i].CANTIDAD_ACTUAL.n
                       + UnidadesVendidas(VentasAgregadas,
                                          InventarioInicial[i].NOMBRE_PRODUCTO)

\* two sales of one product out of an inventory of distinct names, of one unit
\* or more each, that take its whole stock
C11_Witness ==
    /\ NombresDistintos(InventarioInicial)
    /\ Len(InventarioInicial) > 1
    /\ Len(VentasAgregadas) = 2
    /\ VentasAgregadas[1].NOMBRE_PRODUCTO_VENDIDO = VentasAgregadas[2].NOMBRE_PRODUCTO_VENDIDO
    /\ VentasAgregadas[1].CANTIDAD_UNIDADES.n >= 1
    /\ VentasAgregadas[2].CANTIDAD_UNIDADES.n >= 1
    /\ \E i \in 1..Len(inventario_df) :
          /\ inventario_df[i].NOMBRE_PRODUCTO = VentasAgregadas[1].NOMBRE_PRODUCTO_VENDIDO
          /\ inventario_df[i].CANTIDAD_ACTUAL.n = 0
          /\ InventarioInicial[i].CANTIDAD_ACTUAL.n = 2

(***************************************************************************)
(* The two sheets after a sale                                             *)
(***************************************************************************)
\* the Inventory Table the spreadsheet holds, as a read that succeeds returns it
InventarioGuardado(h) ==
    limpiar_inventario(read_sheet_to_df(h[INVENTARIO_SHEET_NAME], TRUE))

\* the spreadsheet h holds the stock of the sale v as the sale left it
DescuentoGuardado(h, v) ==
    LET idx == Min(producto_index(v.inv, v.nombre))
        guardado == InventarioGuardado(h)
    IN  /\ Len(guardado) = Len(v.inv)
        /\ guardado[idx].NOMBRE_PRODUCTO = v.nombre
        /\ guardado[idx].CANTIDAD_ACTUAL.n = v.inv[idx].CANTIDAD_ACTUAL.n - v.cantidad

\* the spreadsheet h holds the record of the sale, in front
RegistroGuardado(h, registro) ==
    /\ VentasGuardadas(h) # <<>>
    /\ VentasGuardadas(h)[1] = registro

\* C12: when a sale that registrar_venta accepted ends, save_data completed or
\* stopped by a failed write of either sheet, the Inventario sheet holds the
\* stock taken by the sale exactly when the Ventas sheet holds its record, and
\* no sheet that held rows is left without rows.
C12_HojasCoherentes ==
    [][(operaciones' # operaciones /\ last'.op = "venta") =>
          /\ DescuentoGuardado(hojas', last') <=> RegistroGuardado(hojas', ventas_df'[1])
          /\ \A h \in {INVENTARIO_SHEET_NAME, VENTAS_SHEET_NAME} :
                hojas[h] # <<>> => hojas'[h] # <<>>]_vars

====
